---- MODULE Spec2Model ----
(***************************************************************************)
(* Model of scripts/custom-check.py: check_health builds three check       *)
(* entries, derives the overall status and exit code, and main renders the *)
(* result (JSON or human readable) and exits with the code.                *)
(*                                                                         *)
(* A Python str is a sequence of code points.  An ASCII code point is the  *)
(* one-character string itself, any other code point is written "U+XXXX".  *)
(***************************************************************************)
EXTENDS Integers, Sequences, FiniteSets, TLC

VARIABLES
    argv,          \* sys.argv[1:]
    environ,       \* os.environ, a dict from variable name to value
    stdout_codec,  \* sys.stdout's [encoding, errors]
    utcnow,        \* what datetime.utcnow() reads
    pc,            \* position of the process
    args,          \* main: the parsed namespace
    exit_code,     \* main: first component of check_health's return
    result,        \* check_health / main: the result dict
    i,             \* main: index of the for loop over result["checks"]
    stdout,        \* text written to sys.stdout
    stderr,        \* what was written to sys.stderr
    exit_status    \* the process exit status, -1 while running

vars == <<argv, environ, stdout_codec, utcnow, pc, args, exit_code, result, i,
          stdout, stderr, exit_status>>

\* Bounds of the model.
MaxArgs == 2
MaxChecks == 3

---------------------------------------------------------------------------
\* String literals of the script, as code point sequences.

S_default == <<"d","e","f","a","u","l","t">>
S_Environment == <<"E","n","v","i","r","o","n","m","e","n","t">>
S_CPU_Usage == <<"C","P","U"," ","U","s","a","g","e">>
S_Normal == <<"N","o","r","m","a","l">>
S_External_API == <<"E","x","t","e","r","n","a","l"," ","A","P","I">>
S_Reachable == <<"R","e","a","c","h","a","b","l","e">>
S_critical == <<"c","r","i","t","i","c","a","l">>
OK == <<"O","K">>
WARNING == <<"W","A","R","N","I","N","G">>
CRITICAL == <<"C","R","I","T","I","C","A","L">>
S_Status == <<"S","t","a","t","u","s",":"," ">>
PassGlyph == <<"U+2713">>
FailGlyph == <<"U+2717">>

\* The code points outside ASCII that occur in the model, with the four hex
\* digits json writes for them.  U+DCFF is the lone surrogate os.environ
\* yields for an undecodable byte of the environment.
Hex4(c) ==
    CASE c = "U+00E9" -> <<"0","0","e","9">>
      [] c = "U+2713" -> <<"2","7","1","3">>
      [] c = "U+2717" -> <<"2","7","1","7">>
      [] c = "U+DCFF" -> <<"d","c","f","f">>

NonAscii == {"U+00E9", "U+2713", "U+2717", "U+DCFF"}
Surrogates == {"U+DCFF"}

---------------------------------------------------------------------------
\* Inputs.

Tokens == {"--verbose", "-v", "--json", "-j", "-h", "--bogus"}

Argvs == UNION {[1..n -> Tokens] : n \in 0..MaxArgs}

CheckModeValues ==
    { <<>>,
      <<"f","o","o">>,
      <<"a","\"","\\">>,
      <<"a","\n","b">>,
      <<"U+00E9">>,
      <<"U+DCFF">> }

Environs == {<<>>} \cup {[CHECK_MODE |-> v] : v \in CheckModeValues}

StdoutCodecs ==
    { [encoding |-> "utf-8", errors |-> "strict"],
      [encoding |-> "utf-8", errors |-> "surrogateescape"],
      [encoding |-> "ascii", errors |-> "strict"] }

Clocks ==
    { [year |-> 2024, month |-> 1, day |-> 2, hour |-> 3, minute |-> 4,
       second |-> 5, microsecond |-> 0],
      [year |-> 2025, month |-> 12, day |-> 31, hour |-> 23, minute |-> 59,
       second |-> 59, microsecond |-> 678] }

---------------------------------------------------------------------------
\* datetime.isoformat()

Digit(n) == <<"0","1","2","3","4","5","6","7","8","9">>[n + 1]

RECURSIVE Pad(_, _)
Pad(n, w) == IF w = 0 THEN <<>> ELSE Pad(n \div 10, w - 1) \o <<Digit(n % 10)>>

isoformat(dt) ==
    Pad(dt.year, 4) \o <<"-">> \o Pad(dt.month, 2) \o <<"-">> \o Pad(dt.day, 2)
    \o <<"T">> \o Pad(dt.hour, 2) \o <<":">> \o Pad(dt.minute, 2) \o <<":">>
    \o Pad(dt.second, 2)
    \o (IF dt.microsecond # 0 THEN <<".">> \o Pad(dt.microsecond, 6) ELSE <<>>)

\* Mutant: os.environ.get(key) or default, which drops an empty value.
environ_get_or_default(env, key, default) ==
    IF key \in DOMAIN env /\ env[key] # <<>> THEN env[key] ELSE default

\* os.environ.get(key, default)
environ_get(env, key, default) == IF key \in DOMAIN env THEN env[key] ELSE default

---------------------------------------------------------------------------
\* check_health

\* Mutant: any severity given counts as critical.
severity_is_present(c) == "severity" \in DOMAIN c

\* c.get("severity") == "critical"
severity_is_critical(c) == "severity" \in DOMAIN c /\ c.severity = S_critical

\* Mutant: a critical entry counts as failed whatever its ok flag.
failed_checks_ignoring_ok(res) ==
    SelectSeq(res.checks,
              LAMBDA c : ~c.ok \/ ("severity" \in DOMAIN c /\ c.severity = S_critical))

\* Line 58.
failed_checks(res) == SelectSeq(res.checks, LAMBDA c : ~c.ok)

\* Line 59.
warning_count(res) ==
    Len(SelectSeq(failed_checks(res), LAMBDA c : ~severity_is_critical(c)))

\* Line 60.
critical_count(res) ==
    Len(SelectSeq(failed_checks(res), LAMBDA c : severity_is_critical(c)))

\* Mutant: the warning branch is tested before the critical one.
determine_status_warning_first(res) ==
    IF warning_count(res) > 0
    THEN <<1, [res EXCEPT !.status = WARNING]>>
    ELSE IF critical_count(res) > 0
    THEN <<2, [res EXCEPT !.status = CRITICAL]>>
    ELSE <<0, [res EXCEPT !.status = OK]>>

\* Lines 57-70: the pair (exit code, result) returned for the result built.
determine_status(res) ==
    IF critical_count(res) > 0
    THEN <<2, [res EXCEPT !.status = CRITICAL]>>
    ELSE IF warning_count(res) > 0
    THEN <<1, [res EXCEPT !.status = WARNING]>>
    ELSE <<0, [res EXCEPT !.status = OK]>>

\* Lines 25-55: the result with its three entries appended.
build_result(env, now) ==
    LET check_mode == environ_get(env, "CHECK_MODE", S_default)
        cpu_ok == TRUE
        api_ok == TRUE
    IN  [timestamp |-> isoformat(now),
         status |-> OK,
         checks |-> << [name |-> S_Environment, value |-> check_mode, ok |-> TRUE],
                       [name |-> S_CPU_Usage, value |-> S_Normal, ok |-> cpu_ok],
                       [name |-> S_External_API, value |-> S_Reachable, ok |-> api_ok] >>]

\* Mutant: verbose adds an entry of its own to the checks.
check_health_verbose_entry(env, now, verbose) ==
    determine_status(
        [build_result(env, now) EXCEPT
            !.checks = IF verbose
                       THEN Append(@, [name |-> <<"V">>, value |-> <<"1">>, ok |-> TRUE])
                       ELSE @])

\* Lines 15-70.
check_health(env, now, verbose) == determine_status(build_result(env, now))

---------------------------------------------------------------------------
\* json.dumps(result, indent=...)

Range(s) == {s[k] : k \in 1..Len(s)}

RECURSIVE Flatten(_)
Flatten(ss) == IF ss = <<>> THEN <<>> ELSE Head(ss) \o Flatten(Tail(ss))

\* sep.join(items)
RECURSIVE Join(_, _)
Join(items, sep) ==
    IF Len(items) = 0 THEN <<>>
    ELSE IF Len(items) = 1 THEN items[1]
    ELSE items[1] \o sep \o Join(Tail(items), sep)

\* Mutant: the quote is written as it is.
escape_char_keeps_quote(c) ==
    CASE c = "\\" -> <<"\\", "\\">>
      [] c = "\n" -> <<"\\", "n">>
      [] c \in NonAscii -> <<"\\", "u">> \o Hex4(c)
      [] OTHER -> <<c>>

\* json.encoder.py_encode_basestring_ascii for one code point (ensure_ascii).
escape_char(c) ==
    CASE c = "\"" -> <<"\\", "\"">>
      [] c = "\\" -> <<"\\", "\\">>
      [] c = "\n" -> <<"\\", "n">>
      [] c \in NonAscii -> <<"\\", "u">> \o Hex4(c)
      [] OTHER -> <<c>>

dumps_str(s) == <<"\"">> \o Flatten([k \in 1..Len(s) |-> escape_char(s[k])]) \o <<"\"">>

dumps_bool(b) == IF b THEN <<"t","r","u","e">> ELSE <<"f","a","l","s","e">>

RECURSIVE Spaces(_)
Spaces(n) == IF n = 0 THEN <<>> ELSE <<" ">> \o Spaces(n - 1)

\* indent is <<>> for None and <<n>> for n spaces per level.
newline_indent(indent, level) == <<"\n">> \o Spaces(indent[1] * level)

\* A dict or list: the items between open and close, at nesting depth level.
container(open, close, items, indent, level) ==
    IF Len(items) = 0 THEN <<open, close>>
    ELSE IF indent = <<>>
    THEN <<open>> \o Join(items, <<",", " ">>) \o <<close>>
    ELSE <<open>> \o newline_indent(indent, level + 1)
         \o Join(items, <<",">> \o newline_indent(indent, level + 1))
         \o newline_indent(indent, level) \o <<close>>

member(key, value) == dumps_str(key) \o <<":", " ">> \o value

K_timestamp == <<"t","i","m","e","s","t","a","m","p">>
K_status == <<"s","t","a","t","u","s">>
K_checks == <<"c","h","e","c","k","s">>
K_name == <<"n","a","m","e">>
K_value == <<"v","a","l","u","e">>
K_ok == <<"o","k">>
K_severity == <<"s","e","v","e","r","i","t","y">>

dumps_check(c, indent, level) ==
    container("{", "}",
        << member(K_name, dumps_str(c.name)),
           member(K_value, dumps_str(c.value)),
           member(K_ok, dumps_bool(c.ok)) >>
        \o (IF "severity" \in DOMAIN c
            THEN <<member(K_severity, dumps_str(c.severity))>> ELSE <<>>),
        indent, level)

json_dumps(res, indent) ==
    container("{", "}",
        << member(K_timestamp, dumps_str(res.timestamp)),
           member(K_status, dumps_str(res.status)),
           member(K_checks,
               container("[", "]",
                   [k \in 1..Len(res.checks) |-> dumps_check(res.checks[k], indent, 2)],
                   indent, 1)) >>,
        indent, 0)

---------------------------------------------------------------------------
\* print

\* Whether sys.stdout's codec can encode the code point.
can_encode(c, codec) ==
    IF c \in Surrogates THEN codec.errors = "surrogateescape"
    ELSE c \in NonAscii => codec.encoding = "utf-8"

\* print(s) returns; otherwise it raises UnicodeEncodeError and writes nothing.
print_ok(s, codec) == \A k \in 1..Len(s) : can_encode(s[k], codec)

printed(s) == s \o <<"\n">>

\* Line 84.
status_line(res) == S_Status \o res.status

\* Lines 86-87.
check_line(check) ==
    LET status == IF check.ok THEN PassGlyph ELSE FailGlyph
    IN  <<" ", " ">> \o status \o <<" ">> \o check.name \o <<":", " ">> \o check.value

\* Mutant: the indent argument is always None.
indent_always_none(a) == <<>>

\* Line 82: the indent argument.
indent_of(a) == IF a.verbose THEN <<2>> ELSE <<>>

---------------------------------------------------------------------------
\* main, as a function of its inputs (lines 79-89).

\* The print calls main makes for the result, in order.
print_calls(a, res) ==
    IF a.json
    THEN <<json_dumps(res, indent_of(a))>>
    ELSE <<status_line(res)>> \o [k \in 1..Len(res.checks) |-> check_line(res.checks[k])]

\* The text the calls write, up to the first one that raises.
RECURSIVE print_all(_, _)
print_all(calls, codec) ==
    IF Len(calls) = 0 THEN [out |-> <<>>, raised |-> FALSE]
    ELSE IF ~print_ok(calls[1], codec) THEN [out |-> <<>>, raised |-> TRUE]
    ELSE LET rest == print_all(Tail(calls), codec)
         IN  [out |-> printed(calls[1]) \o rest.out, raised |-> rest.raised]

\* What a run of main that parsed its arguments to a writes and exits with.
main_body(a, env, codec, now) ==
    LET r == check_health(env, now, a.verbose)
        p == print_all(print_calls(a, r[2]), codec)
    IN  [stdout |-> p.out, exit_status |-> IF p.raised THEN 1 ELSE r[1]]

---------------------------------------------------------------------------
\* The process, step by step.

\* The help text argparse prints for -h, abbreviated to its first word.
HelpText == <<"u","s","a","g","e",":","\n">>

NoArgs == [verbose |-> FALSE, json |-> FALSE]

Init ==
    /\ argv \in Argvs
    /\ environ \in Environs
    /\ stdout_codec \in StdoutCodecs
    /\ utcnow \in Clocks
    /\ pc = "parse_args"
    /\ args = NoArgs
    /\ exit_code = -1
    /\ result = <<>>
    /\ i = 0
    /\ stdout = <<>>
    /\ stderr = <<>>
    /\ exit_status = -1

\* Lines 74-77: -h prints the help and exits 0, an unrecognized argument
\* prints the usage error and exits 2, otherwise the flags are stored.
ParseArgs ==
    /\ pc = "parse_args"
    /\ IF "-h" \in Range(argv)
       THEN /\ stdout' = stdout \o HelpText
            /\ exit_status' = 0
            /\ pc' = "exited_parse_args"
            /\ UNCHANGED <<args, stderr>>
       ELSE IF "--bogus" \in Range(argv)
       THEN /\ stderr' = stderr \o <<"usage error">>
            /\ exit_status' = 2
            /\ pc' = "exited_parse_args"
            /\ UNCHANGED <<args, stdout>>
       ELSE /\ args' = [verbose |-> Range(argv) \cap {"--verbose", "-v"} # {},
                        json |-> Range(argv) \cap {"--json", "-j"} # {}]
            /\ pc' = "check_health"
            /\ UNCHANGED <<stdout, stderr, exit_status>>
    /\ UNCHANGED <<argv, environ, stdout_codec, utcnow, exit_code, result, i>>

\* Line 79.
CallCheckHealth ==
    /\ pc = "check_health"
    /\ LET r == check_health(environ, utcnow, args.verbose)
       IN  exit_code' = r[1] /\ result' = r[2]
    /\ pc' = "render"
    /\ UNCHANGED <<argv, environ, stdout_codec, utcnow, args, i, stdout, stderr,
                   exit_status>>

\* print(s) at the current position: on success the text is written and the
\* process moves to next, otherwise UnicodeEncodeError propagates.
do_print(s, next) ==
    IF print_ok(s, stdout_codec)
    THEN stdout' = stdout \o printed(s) /\ pc' = next
    ELSE stdout' = stdout /\ pc' = "raised"

\* Lines 81-82.
PrintJson ==
    /\ pc = "render"
    /\ args.json
    /\ do_print(json_dumps(result, indent_of(args)), "sys_exit")
    /\ UNCHANGED <<argv, environ, stdout_codec, utcnow, args, exit_code, result, i,
                   stderr, exit_status>>

\* Lines 83-84.
PrintStatus ==
    /\ pc = "render"
    /\ ~args.json
    /\ do_print(status_line(result), "for")
    /\ i' = 1
    /\ UNCHANGED <<argv, environ, stdout_codec, utcnow, args, exit_code, result,
                   stderr, exit_status>>

\* Lines 85-87: one iteration of the loop.
PrintCheck ==
    /\ pc = "for"
    /\ i <= Len(result.checks)
    /\ do_print(check_line(result.checks[i]), "for")
    /\ i' = i + 1
    /\ UNCHANGED <<argv, environ, stdout_codec, utcnow, args, exit_code, result,
                   stderr, exit_status>>

\* Line 85: the loop is exhausted.
EndFor ==
    /\ pc = "for"
    /\ i > Len(result.checks)
    /\ pc' = "sys_exit"
    /\ UNCHANGED <<argv, environ, stdout_codec, utcnow, args, exit_code, result, i,
                   stdout, stderr, exit_status>>

\* Line 89.
SysExit ==
    /\ pc = "sys_exit"
    /\ exit_status' = exit_code
    /\ pc' = "exited"
    /\ UNCHANGED <<argv, environ, stdout_codec, utcnow, args, exit_code, result, i,
                   stdout, stderr>>

\* Lines 92-93: an exception leaves main; the interpreter prints the
\* traceback and exits with status 1.
UncaughtException ==
    /\ pc = "raised"
    /\ stderr' = stderr \o <<"Traceback: UnicodeEncodeError">>
    /\ exit_status' = 1
    /\ pc' = "exited_traceback"
    /\ UNCHANGED <<argv, environ, stdout_codec, utcnow, args, exit_code, result, i,
                   stdout>>

Next ==
    \/ ParseArgs
    \/ CallCheckHealth
    \/ PrintJson
    \/ PrintStatus
    \/ PrintCheck
    \/ EndFor
    \/ SysExit
    \/ UncaughtException

Spec == Init /\ [][Next]_vars

---------------------------------------------------------------------------
\* The aggregation step of check_health (lines 57-70) on any list of checks.

Severities == {S_critical, <<"C","r","i","t","i","c","a","l">>, <<"w","a","r","n","i","n","g">>}

CheckEntries ==
    {[name |-> <<"p">>, value |-> <<"v">>, ok |-> b] : b \in BOOLEAN}
    \cup {[name |-> <<"p">>, value |-> <<"v">>, ok |-> b, severity |-> sv] :
            b \in BOOLEAN, sv \in Severities}

CheckLists == UNION {[1..n -> CheckEntries] : n \in 0..MaxChecks}

InitAgg ==
    /\ argv = <<>>
    /\ environ = <<>>
    /\ stdout_codec = [encoding |-> "utf-8", errors |-> "strict"]
    /\ utcnow \in Clocks
    /\ pc = "determine_status"
    /\ args = NoArgs
    /\ exit_code = -1
    /\ \E checks \in CheckLists :
          result = [timestamp |-> isoformat(utcnow), status |-> OK, checks |-> checks]
    /\ i = 0
    /\ stdout = <<>>
    /\ stderr = <<>>
    /\ exit_status = -1

DetermineStatus ==
    /\ pc = "determine_status"
    /\ LET r == determine_status(result)
       IN  exit_code' = r[1] /\ result' = r[2]
    /\ pc' = "returned"
    /\ UNCHANGED <<argv, environ, stdout_codec, utcnow, args, i, stdout, stderr,
                   exit_status>>

NextAgg == DetermineStatus

SpecAgg == InitAgg /\ [][NextAgg]_vars

---------------------------------------------------------------------------
\* Reading JSON text back (what json.loads does on the text main emits): an
\* object is [dict |-> <<[key, val], ...>>], an array [list |-> <<...>>], a
\* string [str |-> code points], true and false [bool |-> b].

Fail == [ok |-> FALSE, val |-> <<>>, pos |-> 0]
Done(v, p) == [ok |-> TRUE, val |-> v, pos |-> p]

RECURSIVE skip_ws(_, _)
skip_ws(t, p) ==
    IF p <= Len(t) /\ t[p] \in {" ", "\n"} THEN skip_ws(t, p + 1) ELSE p

code_point(h) ==
    IF \E c \in NonAscii : Hex4(c) = h
    THEN CHOOSE c \in NonAscii : Hex4(c) = h
    ELSE "U+FFFD"

\* The string whose opening quote has been read.
RECURSIVE parse_chars(_, _, _)
parse_chars(t, p, acc) ==
    IF p > Len(t) THEN Fail
    ELSE IF t[p] = "\"" THEN Done([str |-> acc], p + 1)
    ELSE IF t[p] = "\n" THEN Fail
    ELSE IF t[p] = "\\"
    THEN IF p + 1 > Len(t) THEN Fail
         ELSE IF t[p + 1] \in {"\"", "\\"}
         THEN parse_chars(t, p + 2, Append(acc, t[p + 1]))
         ELSE IF t[p + 1] = "n"
         THEN parse_chars(t, p + 2, Append(acc, "\n"))
         ELSE IF t[p + 1] = "u" /\ p + 5 <= Len(t)
         THEN parse_chars(t, p + 6, Append(acc, code_point(SubSeq(t, p + 2, p + 5))))
         ELSE Fail
    ELSE parse_chars(t, p + 1, Append(acc, t[p]))

literal_at(t, p, word) ==
    p + Len(word) - 1 <= Len(t) /\ SubSeq(t, p, p + Len(word) - 1) = word

RECURSIVE parse_value(_, _)
RECURSIVE parse_elements(_, _, _)
RECURSIVE parse_members(_, _, _)

parse_value(t, p0) ==
    LET p == skip_ws(t, p0)
    IN  IF p > Len(t) THEN Fail
        ELSE CASE t[p] = "\"" -> parse_chars(t, p + 1, <<>>)
               [] t[p] = "t" ->
                    IF literal_at(t, p, dumps_bool(TRUE))
                    THEN Done([bool |-> TRUE], p + 4) ELSE Fail
               [] t[p] = "f" ->
                    IF literal_at(t, p, dumps_bool(FALSE))
                    THEN Done([bool |-> FALSE], p + 5) ELSE Fail
               [] t[p] = "[" ->
                    LET q == skip_ws(t, p + 1)
                    IN  IF q <= Len(t) /\ t[q] = "]"
                        THEN Done([list |-> <<>>], q + 1)
                        ELSE parse_elements(t, q, <<>>)
               [] t[p] = "{" ->
                    LET q == skip_ws(t, p + 1)
                    IN  IF q <= Len(t) /\ t[q] = "}"
                        THEN Done([dict |-> <<>>], q + 1)
                        ELSE parse_members(t, q, <<>>)
               [] OTHER -> Fail

parse_elements(t, p, acc) ==
    LET v == parse_value(t, p)
        q == skip_ws(t, v.pos)
    IN  IF ~v.ok \/ q > Len(t) THEN Fail
        ELSE IF t[q] = "," THEN parse_elements(t, q + 1, Append(acc, v.val))
        ELSE IF t[q] = "]" THEN Done([list |-> Append(acc, v.val)], q + 1)
        ELSE Fail

parse_members(t, p0, acc) ==
    LET p == skip_ws(t, p0)
    IN  IF p > Len(t) \/ t[p] # "\"" THEN Fail
        ELSE LET k == parse_chars(t, p + 1, <<>>)
                 c == skip_ws(t, k.pos)
             IN  IF ~k.ok \/ c > Len(t) \/ t[c] # ":" THEN Fail
                 ELSE LET v == parse_value(t, c + 1)
                          q == skip_ws(t, v.pos)
                          m == [key |-> k.val.str, val |-> v.val]
                      IN  IF ~v.ok \/ q > Len(t) THEN Fail
                          ELSE IF t[q] = "," THEN parse_members(t, q + 1, Append(acc, m))
                          ELSE IF t[q] = "}" THEN Done([dict |-> Append(acc, m)], q + 1)
                          ELSE Fail

json_loads(t) ==
    LET v == parse_value(t, 1)
    IN  IF v.ok /\ skip_ws(t, v.pos) = Len(t) + 1 THEN v ELSE Fail

---------------------------------------------------------------------------
\* Properties of the aggregation step, under SpecAgg.

Failing(c) == ~c.ok
CriticalFailing(c) == ~c.ok /\ "severity" \in DOMAIN c /\ c.severity = S_critical
Some(checks, P(_)) == \E k \in 1..Len(checks) : P(checks[k])

\* C1: whenever the checks aggregated contain a failing entry whose severity
\* is "critical", the status returned is CRITICAL and the code is 2, whatever
\* else the list holds and wherever the critical entry stands.
C1_CriticalWins ==
    (pc = "returned" /\ Some(result.checks, CriticalFailing))
        => (result.status = CRITICAL /\ exit_code = 2)

\* C1 witness: a critical failure in last place, after a passing entry and a
\* failing entry that is not critical.
C1_Witness ==
    /\ pc = "returned"
    /\ Len(result.checks) = 3
    /\ result.checks[1].ok
    /\ Failing(result.checks[2]) /\ ~CriticalFailing(result.checks[2])
    /\ CriticalFailing(result.checks[3])

\* C2: whenever the checks aggregated contain a failing entry and no failing
\* entry has severity "critical", the status returned is WARNING and the code
\* is 1.
C2_WarningOtherwise ==
    (pc = "returned" /\ Some(result.checks, Failing)
                     /\ ~Some(result.checks, CriticalFailing))
        => (result.status = WARNING /\ exit_code = 1)

\* C2 witness: one failing entry without severity and one whose severity is
\* another value than "critical".
C2_Witness ==
    /\ pc = "returned"
    /\ ~Some(result.checks, CriticalFailing)
    /\ Some(result.checks, LAMBDA c : ~c.ok /\ "severity" \notin DOMAIN c)
    /\ Some(result.checks, LAMBDA c : ~c.ok /\ "severity" \in DOMAIN c)

\* C3: whenever no entry aggregated is failing, the status returned is OK and
\* the code is 0, also for a passing entry of severity "critical" and for the
\* empty list.
C3_OkWhenNoneFails ==
    (pc = "returned" /\ ~Some(result.checks, Failing))
        => (result.status = OK /\ exit_code = 0)

\* C3 witness: a passing entry that carries severity "critical".
C3_Witness ==
    /\ pc = "returned"
    /\ ~Some(result.checks, Failing)
    /\ Some(result.checks, LAMBDA c : "severity" \in DOMAIN c /\ c.severity = S_critical)

\* The empty list is aggregated too.
C3_EmptyReached == pc = "returned" /\ result.checks = <<>>

---------------------------------------------------------------------------
\* Properties of a run of main, under Spec.

\* check_health has returned to main.
Returned == pc \in {"render", "for", "sys_exit", "raised", "exited", "exited_traceback"}

\* The process has ended after getting past parse_args.
Ended == pc \in {"exited", "exited_traceback"}

NewlineCount(t) == Cardinality({k \in 1..Len(t) : t[k] = "\n"})

\* Where the lines of t start.
LineStarts(t) == {p \in 1..Len(t) : p = 1 \/ t[p - 1] = "\n"}

\* The start of the line that position p of t is on.
RECURSIVE LineStart(_, _)
LineStart(t, p) == IF p = 1 \/ t[p - 1] = "\n" THEN p ELSE LineStart(t, p - 1)

RECURSIVE LeadingSpaces(_, _)
LeadingSpaces(t, p) ==
    IF p <= Len(t) /\ t[p] = " " THEN 1 + LeadingSpaces(t, p + 1) ELSE 0

IsPrefix(a, b) == Len(a) <= Len(b) /\ SubSeq(b, 1, Len(a)) = a

\* The whole rendering of the result, every print call having returned.
Rendering(a, res) ==
    Flatten([k \in 1..Len(print_calls(a, res)) |-> printed(print_calls(a, res)[k])])

\* What json.loads gives for the result.
value_of_check(c) ==
    [dict |-> << [key |-> K_name, val |-> [str |-> c.name]],
                 [key |-> K_value, val |-> [str |-> c.value]],
                 [key |-> K_ok, val |-> [bool |-> c.ok]] >>
              \o (IF "severity" \in DOMAIN c
                  THEN <<[key |-> K_severity, val |-> [str |-> c.severity]]>>
                  ELSE <<>>)]

value_of_result(res) ==
    [dict |-> << [key |-> K_timestamp, val |-> [str |-> res.timestamp]],
                 [key |-> K_status, val |-> [str |-> res.status]],
                 [key |-> K_checks,
                  val |-> [list |-> [k \in 1..Len(res.checks) |->
                                        value_of_check(res.checks[k])]]] >>]

\* C4: in every run that gets past parse_args the process exit status is the
\* code check_health returned, is 0, 1 or 2, is 0 exactly for status OK, 1
\* exactly for WARNING and 2 exactly for CRITICAL, and the rendering has been
\* printed when the process exits.
C4_ExitStatusIsReturnedCode ==
    Ended =>
        /\ exit_status = exit_code
        /\ exit_status \in {0, 1, 2}
        /\ (exit_status = 0) <=> (result.status = OK)
        /\ (exit_status = 1) <=> (result.status = WARNING)
        /\ (exit_status = 2) <=> (result.status = CRITICAL)
        /\ stdout = Rendering(args, result)

\* C5: a run without flags prints "Status: OK" and then exactly three lines,
\* for Environment, CPU Usage and External API in this order, each with the
\* pass glyph, and exits with status 0.
C5_DefaultInvocation ==
    (argv = <<>> /\ Ended) =>
        /\ stdout = printed(S_Status \o OK)
             \o printed(<<" ", " ">> \o PassGlyph \o <<" ">> \o S_Environment \o <<":", " ">>
                        \o environ_get(environ, "CHECK_MODE", S_default))
             \o printed(<<" ", " ">> \o PassGlyph \o <<" ">> \o S_CPU_Usage \o <<":", " ">>
                        \o S_Normal)
             \o printed(<<" ", " ">> \o PassGlyph \o <<" ">> \o S_External_API \o <<":", " ">>
                        \o S_Reachable)
        /\ NewlineCount(stdout) = 4
        /\ exit_status = 0

\* C6: the result check_health returns has an entry named "Environment" whose
\* value is the value of CHECK_MODE, or "default" when CHECK_MODE is not set,
\* and whose ok is true.
C6_EnvironmentEchoed ==
    Returned =>
        LET v == IF "CHECK_MODE" \in DOMAIN environ THEN environ.CHECK_MODE ELSE S_default
        IN  /\ \E k \in 1..Len(result.checks) :
                  result.checks[k].name = S_Environment
            /\ \A k \in 1..Len(result.checks) :
                  result.checks[k].name = S_Environment
                      => (result.checks[k].value = v /\ result.checks[k].ok)

\* C6 witness: CHECK_MODE is set to the empty string and echoed as such.
C6_Witness ==
    /\ Returned
    /\ "CHECK_MODE" \in DOMAIN environ /\ environ.CHECK_MODE = <<>>
    /\ result.checks[1].value = <<>>

\* CHECK_MODE is unset and "default" is reported.
C6_DefaultReached == Returned /\ environ = <<>> /\ result.checks[1].value = S_default

\* C7: with --json and --verbose the output is the result as JSON on several
\* lines, nested by two spaces per level; with --json alone it is the result as
\* JSON on a single line; without --json it is the human-readable rendering,
\* which is not JSON.
C7_OutputFormat ==
    /\ (pc \in {"sys_exit", "exited"} /\ args.json /\ args.verbose) =>
          LET v == json_loads(stdout)
              starts == LineStarts(stdout)
          IN  /\ v.ok
              /\ v.val = value_of_result(result)
              /\ NewlineCount(stdout) > 1
              /\ Cardinality(starts) = NewlineCount(stdout)
              /\ LeadingSpaces(stdout, 1) = 0
              /\ \A q \in starts \ {1} :
                    LeadingSpaces(stdout, q) - LeadingSpaces(stdout, LineStart(stdout, q - 1))
                        \in {-2, 0, 2}
              /\ \E q \in starts : LeadingSpaces(stdout, q) = 6
    /\ (pc \in {"sys_exit", "exited"} /\ args.json /\ ~args.verbose) =>
          /\ LET v == json_loads(stdout)
             IN  v.ok /\ v.val = value_of_result(result)
          /\ NewlineCount(stdout) = 1
          /\ stdout[Len(stdout)] = "\n"
    /\ args.json => pc # "raised"
    /\ (pc \in {"for", "sys_exit", "raised", "exited", "exited_traceback"} /\ ~args.json) =>
          /\ IsPrefix(printed(status_line(result)), stdout)
          /\ IsPrefix(stdout, Rendering(args, result))
          /\ ~json_loads(stdout).ok
          /\ (pc \in {"sys_exit", "exited"} => stdout = Rendering(args, result))

\* C7 witness: --json --verbose with a CHECK_MODE that holds a line break.
C7_Witness ==
    /\ pc = "exited" /\ args.json /\ args.verbose
    /\ "CHECK_MODE" \in DOMAIN environ /\ "\n" \in Range(environ.CHECK_MODE)

\* The other two formats are reached too.
C7_CompactReached ==
    /\ pc = "exited" /\ args.json /\ ~args.verbose
    /\ "CHECK_MODE" \in DOMAIN environ /\ "\n" \in Range(environ.CHECK_MODE)

C7_HumanReached == pc = "exited" /\ ~args.json /\ args.verbose

\* C8: the result check_health returns has exactly the fields timestamp,
\* status and checks, its status is OK, WARNING or CRITICAL, every entry of
\* checks has name, value and ok and either no severity or "critical"; and the
\* JSON text main emits reads back as an object of exactly these fields.
C8_ResultShape ==
    /\ Returned =>
          /\ DOMAIN result = {"timestamp", "status", "checks"}
          /\ result.status \in {OK, WARNING, CRITICAL}
          /\ \A k \in 1..Len(result.checks) :
                \/ DOMAIN result.checks[k] = {"name", "value", "ok"}
                \/ /\ DOMAIN result.checks[k] = {"name", "value", "ok", "severity"}
                   /\ result.checks[k].severity = S_critical
    /\ (pc \in {"sys_exit", "exited"} /\ args.json) =>
          LET v == json_loads(stdout)
          IN  /\ v.ok
              /\ "dict" \in DOMAIN v.val
              /\ [k \in 1..Len(v.val.dict) |-> v.val.dict[k].key]
                    = <<K_timestamp, K_status, K_checks>>
              /\ v.val.dict[2].val \in {[str |-> OK], [str |-> WARNING], [str |-> CRITICAL]}
              /\ \A k \in 1..Len(v.val.dict[3].val.list) :
                    LET c == v.val.dict[3].val.list[k].dict
                    IN  [m \in 1..Len(c) |-> c[m].key] \in
                            {<<K_name, K_value, K_ok>>, <<K_name, K_value, K_ok, K_severity>>}
              /\ v.val = value_of_result(result)

\* C8 witness: JSON was emitted for a CHECK_MODE holding a quote and a backslash.
C8_Witness ==
    /\ pc = "exited" /\ args.json
    /\ "CHECK_MODE" \in DOMAIN environ /\ "\"" \in Range(environ.CHECK_MODE)

\* C9: two runs that differ only in the value of CHECK_MODE have the same
\* returned status, the same exit code, the same number and names of checks
\* and the same ok flags; only the value of the "Environment" entry may differ.
C9_CheckModeOnlyEchoed ==
    Ended =>
        \A env2 \in Environs :
            LET r2 == check_health(env2, utcnow, args.verbose)
                o2 == main_body(args, env2, stdout_codec, utcnow)
            IN  /\ r2[2].status = result.status
                /\ r2[1] = exit_code
                /\ o2.exit_status = exit_status
                /\ Len(r2[2].checks) = Len(result.checks)
                /\ \A k \in 1..Len(result.checks) :
                      /\ r2[2].checks[k].name = result.checks[k].name
                      /\ r2[2].checks[k].ok = result.checks[k].ok
                      /\ (result.checks[k].name # S_Environment
                            => r2[2].checks[k].value = result.checks[k].value)

\* C10: two runs that differ only in whether --verbose is given get the same
\* code, status and checks from check_health, exit with the same status, and
\* without --json print the same output.
C10_VerboseOnlyIndents ==
    Ended =>
        LET a2 == [args EXCEPT !.verbose = ~args.verbose]
            r2 == check_health(environ, utcnow, a2.verbose)
            o2 == main_body(a2, environ, stdout_codec, utcnow)
        IN  /\ r2[1] = exit_code
            /\ r2[2] = result
            /\ o2.exit_status = exit_status
            /\ (~args.json => o2.stdout = stdout)

\* C10 witness: a run with --verbose and without --json has printed its lines.
C10_Witness == pc = "exited" /\ args.verbose /\ ~args.json /\ NewlineCount(stdout) >= 4

\* With --json the two runs do differ in what they print.
C10_JsonDiffers ==
    (Ended /\ args.json) =>
        main_body([args EXCEPT !.verbose = ~args.verbose], environ, stdout_codec,
                  utcnow).stdout # stdout

\* What does hold of C4 and C9: a run in which no print raises exits with the
\* code returned and has printed the rendering, and the values check_health
\* returns do not depend on CHECK_MODE beyond the entry echoing it.
ExitStatusWhenNothingRaises ==
    pc = "exited" =>
        /\ exit_status = exit_code /\ exit_status = 0 /\ result.status = OK
        /\ stdout = Rendering(args, result)

ReturnedValuesIgnoreCheckMode ==
    Returned =>
        \A env2 \in Environs :
            LET r2 == check_health(env2, utcnow, args.verbose)
            IN  /\ r2[1] = exit_code
                /\ [r2[2] EXCEPT !.checks[1].value = <<>>]
                      = [result EXCEPT !.checks[1].value = <<>>]

\* The step-by-step run ends as main_body computes it.
RunAgreesWithMainBody ==
    Ended => main_body(args, environ, stdout_codec, utcnow)
                = [stdout |-> stdout, exit_status |-> exit_status]

====
